---- MODULE Spec2Model ----
(***************************************************************************)
(* Power-mode scheduler of the PSoC 4 MSCLP low-power proximity example    *)
(* (main.c): the three-mode state machine of main(), the scan / deep-sleep *)
(* wait loops, the MSCLP scan-completion interrupt, the EZI2C interrupt    *)
(* and the deep-sleep callback.                                            *)
(***************************************************************************)
EXTENDS Integers, Naturals, Sequences, FiniteSets, TLC

VARIABLES
    appState,              \* APPLICATION_STATE appState
    appStateTimeoutCount,  \* uint32_t appStateTimeoutCount
    interruptStatus,       \* uint32_t interruptStatus (saved PRIMASK of main)
    pc,                    \* position of main() inside the for(;;) loop
    primask,               \* TRUE: interrupts are masked (critical section)
    pmStatus,              \* PRIMASK saved inside Cy_SysPm_CpuEnterDeepSleep
    asleep,                \* TRUE: the core sits in WFI (deep sleep)
    busy,                  \* what Cy_CapSense_IsBusy reports
    hwLeft,                \* interrupts the MSCLP block still has to raise
    mscIrq,                \* MSCLP interrupt pending in the NVIC
    ezi2cIrq,              \* EZI2C interrupt pending in the NVIC
    msclpTimer,            \* last value given to Cy_CapSense_ConfigureMsclpTimer
    mosiDrive,             \* drive mode of the SPI MOSI pin
    anyWidgetActive,       \* what Cy_CapSense_IsAnyWidgetActive reports
    anyLpWidgetActive,     \* what Cy_CapSense_IsAnyLpWidgetActive reports
    prevState,             \* appState when the current handler evaluated
    prevCount,             \* appStateTimeoutCount when it evaluated
    prevTimer,             \* msclpTimer when it evaluated
    sample,                \* the activity sample the handler evaluated
    quietCycles,           \* cycles evaluated without activity since the mode
                           \* was entered or activity was last seen
    scanKind,              \* scan triggered in this cycle: "none", "all", "lp"
    scans,                 \* scans triggered since the cycle started
    stage,                 \* last step the cycle completed: "idle", "scan",
                           \* "wait", "process", "query", "leds", "tuner"
    timerCalls,            \* Cy_CapSense_ConfigureMsclpTimer calls of the cycle
    ledRefreshes,          \* UpdateLeds calls of the cycle
    tunerRuns,             \* Cy_CapSense_RunTuner calls of the cycle
    driveBefore,           \* MOSI drive mode when CY_SYSPM_BEFORE_TRANSITION came
    initError,             \* startup step that reported a failure, or "none"
    timerCfg,              \* macros a wake timer is computed from: refresh
                           \* rate, frame scan time, process time
    cb                     \* last direct call of DeepSleepCallback: its mode
                           \* and the status it returned

vars == << appState, appStateTimeoutCount, interruptStatus, pc, primask,
           pmStatus, asleep, busy, hwLeft, mscIrq, ezi2cIrq, msclpTimer,
           mosiDrive, anyWidgetActive, anyLpWidgetActive, prevState,
           prevCount, prevTimer, sample, quietCycles, scanKind, scans, stage, timerCalls,
           ledRefreshes, tunerRuns, driveBefore, initError, timerCfg, cb >>

----------------------------------------------------------------------------
(* Program constants *)

ACTIVE_MODE == 1
ALR_MODE == 2
WOT_MODE == 3

ACTIVE_MODE_REFRESH_RATE == 128
ALR_MODE_REFRESH_RATE == 32
ACTIVE_MODE_TIMEOUT_SEC == 5
ALR_MODE_TIMEOUT_SEC == 5
ACTIVE_MODE_FRAME_SCAN_TIME == 2891
ACTIVE_MODE_PROCESS_TIME == 23
ALR_MODE_FRAME_SCAN_TIME == 2891
ALR_MODE_PROCESS_TIME == 23
ILO_FREQ == 40000
TIME_IN_US == 1000000
TIMEOUT_RESET == 0

MINIMUM_TIMER == TIME_IN_US \div ILO_FREQ

\* The #if / #elif pair that defines ACTIVE_MODE_TIMER and ALR_MODE_TIMER.
ModeTimer(rate, scanTime, processTime) ==
    IF (TIME_IN_US \div rate) > (scanTime + processTime)
    THEN (TIME_IN_US \div rate) - (scanTime + processTime)
    ELSE MINIMUM_TIMER

ACTIVE_MODE_TIMER ==
    ModeTimer(ACTIVE_MODE_REFRESH_RATE, ACTIVE_MODE_FRAME_SCAN_TIME,
              ACTIVE_MODE_PROCESS_TIME)

ALR_MODE_TIMER ==
    ModeTimer(ALR_MODE_REFRESH_RATE, ALR_MODE_FRAME_SCAN_TIME,
              ALR_MODE_PROCESS_TIME)

ACTIVE_MODE_TIMEOUT == ACTIVE_MODE_REFRESH_RATE * ACTIVE_MODE_TIMEOUT_SEC

ALR_MODE_TIMEOUT == ALR_MODE_REFRESH_RATE * ALR_MODE_TIMEOUT_SEC

CY_GPIO_DM_ANALOG == "analog"
CY_GPIO_DM_STRONG_IN_OFF == "strong"

\* The drive mode the board configuration and InitSpiMaster leave on the
\* MOSI pin: its active configuration.
ActiveDriveMode == CY_GPIO_DM_STRONG_IN_OFF

----------------------------------------------------------------------------
(* Bounds *)

\* Largest number of interrupts the MSCLP block raises for one scan; the
\* last one ends the scan, the earlier ones wake the core while still busy.
MaxScanIrqs == 2

\* Largest refresh rate (Hz) a wake timer is computed for; the rates tried
\* are the two of the program and the eight up to this one, whose periods
\* lie just above and just below the scan plus process time.
MaxTimerRate == 346

\* The frame scan times tried lie this far around the program's 2891 us, and
\* the process times tried are the program's 23 us and this much more.
MaxTimeDelta == 2

----------------------------------------------------------------------------
(* Initial state: main() has reached the for(;;) loop *)

Init ==
    /\ appState = ACTIVE_MODE
    /\ appStateTimeoutCount = 0
    /\ interruptStatus = FALSE
    /\ pc = "switch"
    /\ primask = FALSE
    /\ pmStatus = FALSE
    /\ asleep = FALSE
    /\ busy = FALSE
    /\ hwLeft = 0
    /\ mscIrq = FALSE
    /\ ezi2cIrq = FALSE
    /\ msclpTimer = ACTIVE_MODE_TIMER
    /\ mosiDrive = ActiveDriveMode
    /\ anyWidgetActive = FALSE
    /\ anyLpWidgetActive = FALSE
    /\ prevState = ACTIVE_MODE
    /\ prevCount = 0
    /\ prevTimer = ACTIVE_MODE_TIMER
    /\ sample = FALSE
    /\ quietCycles = 0
    /\ scanKind = "none"
    /\ scans = 0
    /\ stage = "idle"
    /\ timerCalls = 0
    /\ ledRefreshes = 0
    /\ tunerRuns = 0
    /\ driveBefore = "none"
    /\ initError = "none"
    /\ timerCfg = [rate |-> ACTIVE_MODE_REFRESH_RATE,
                   scanTime |-> ACTIVE_MODE_FRAME_SCAN_TIME,
                   processTime |-> ACTIVE_MODE_PROCESS_TIME]
    /\ cb = [mode |-> "none", retValue |-> "none"]

----------------------------------------------------------------------------
(* The Cortex-M0+ core: thread-mode code runs only while the core is awake  *)
(* and no unmasked interrupt is pending (a pending, unmasked interrupt is   *)
(* taken before the next instruction of main).                              *)

IrqPending == mscIrq \/ ezi2cIrq

MainRuns == ~asleep /\ ~(~primask /\ IrqPending)

\* Cy_SysLib_EnterCriticalSection: returns the old PRIMASK, masks interrupts.
EnterCriticalSectionMask(old) == TRUE

\* Variant of ExitCriticalSectionMask: the saved state is not restored, the
\* interrupts stay masked.
ExitCriticalSectionMaskStays(saved) == TRUE

\* Cy_SysLib_ExitCriticalSection(saved): restores PRIMASK.
ExitCriticalSectionMask(saved) == saved

\* Variant of WaitCondition: the condition of the loop is negated.
WaitConditionNegated(engineBusy) == ~engineBusy

\* Variant of WaitCondition: the loop is never entered.
WaitConditionNever(engineBusy) == FALSE

\* The condition of the wait loops: while (Cy_CapSense_IsBusy(...))
WaitCondition(engineBusy) == engineBusy

\* Variant of DeepSleepCallback: CY_SYSPM_CHECK_FAIL returns the value
\* retValue is initialized with.
DeepSleepCallbackFailKept(mode, drive) ==
    CASE mode = "CY_SYSPM_CHECK_FAIL" ->
             [retValue |-> "CY_SYSPM_FAIL", drive |-> drive]
      [] mode = "CY_SYSPM_BEFORE_TRANSITION" ->
             [retValue |-> "CY_SYSPM_SUCCESS", drive |-> CY_GPIO_DM_ANALOG]
      [] mode = "CY_SYSPM_AFTER_TRANSITION" ->
             [retValue |-> "CY_SYSPM_SUCCESS",
              drive |-> CY_GPIO_DM_STRONG_IN_OFF]
      [] OTHER ->
             [retValue |-> "CY_SYSPM_SUCCESS", drive |-> drive]

\* Variant of DeepSleepCallback: CY_SYSPM_AFTER_TRANSITION leaves the MOSI
\* pin as CY_SYSPM_BEFORE_TRANSITION put it.
DeepSleepCallbackStaysAnalog(mode, drive) ==
    CASE mode = "CY_SYSPM_BEFORE_TRANSITION" ->
             [retValue |-> "CY_SYSPM_SUCCESS", drive |-> CY_GPIO_DM_ANALOG]
      [] OTHER ->
             [retValue |-> "CY_SYSPM_SUCCESS", drive |-> drive]

\* DeepSleepCallback(callbackParams, mode): the returned status and the
\* drive mode of the MOSI pin after the call (ENABLE_SPI_SERIAL_LED is 1).
DeepSleepCallback(mode, drive) ==
    CASE mode = "CY_SYSPM_CHECK_READY" ->
             [retValue |-> "CY_SYSPM_SUCCESS", drive |-> drive]
      [] mode = "CY_SYSPM_CHECK_FAIL" ->
             [retValue |-> "CY_SYSPM_SUCCESS", drive |-> drive]
      [] mode = "CY_SYSPM_BEFORE_TRANSITION" ->
             [retValue |-> "CY_SYSPM_SUCCESS", drive |-> CY_GPIO_DM_ANALOG]
      [] mode = "CY_SYSPM_AFTER_TRANSITION" ->
             [retValue |-> "CY_SYSPM_SUCCESS",
              drive |-> CY_GPIO_DM_STRONG_IN_OFF]
      [] OTHER ->
             [retValue |-> "CY_SYSPM_SUCCESS", drive |-> drive]

\* Where Cy_SysPm_CpuEnterDeepSleep returns to: the body of the while loop
\* of the current mode.
AfterDeepSleep ==
    IF appState = WOT_MODE THEN "isBusy" ELSE "loopExitCS"

hist == << prevState, prevCount, prevTimer, sample, quietCycles >>
sched == << appState, appStateTimeoutCount, msclpTimer >>
widgets == << anyWidgetActive, anyLpWidgetActive >>
irqs == << hwLeft, mscIrq, ezi2cIrq >>
cycle == << scanKind, scans, stage >>
calls == << timerCalls, ledRefreshes, tunerRuns >>
aux == << driveBefore, initError, timerCfg, cb >>

----------------------------------------------------------------------------
(* main(): switch (appState) and the scan trigger of the selected case *)

SwitchAppState ==
    /\ pc = "switch"
    /\ MainRuns
    /\ IF appState \in {ACTIVE_MODE, ALR_MODE}
       THEN \* Cy_CapSense_ScanAllSlots
            /\ \E n \in 1..MaxScanIrqs : hwLeft' = n
            /\ busy' = TRUE
            /\ scanKind' = "all"
            /\ scans' = scans + 1
            /\ stage' = "scan"
            /\ timerCalls' = 0
            /\ ledRefreshes' = 0
            /\ tunerRuns' = 0
            /\ pc' = "enterCS"
       ELSE IF appState = WOT_MODE
       THEN \* Cy_CapSense_ScanAllLpSlots
            /\ \E n \in 1..MaxScanIrqs : hwLeft' = n
            /\ busy' = TRUE
            /\ scanKind' = "lp"
            /\ scans' = scans + 1
            /\ stage' = "scan"
            /\ timerCalls' = 0
            /\ ledRefreshes' = 0
            /\ tunerRuns' = 0
            /\ pc' = "isBusy"
       ELSE \* default: CY_ASSERT(CY_ASSERT_FAILED)
            /\ pc' = "assert"
            /\ UNCHANGED << hwLeft, busy, scanKind, scans, stage, calls >>
    /\ UNCHANGED << sched, interruptStatus, primask, pmStatus, asleep,
                    mscIrq, ezi2cIrq, mosiDrive, widgets, hist, aux >>

\* Variant of EnterCriticalSection: the wait loop is entered without masking
\* the interrupts, as in the WOT_MODE case.
EnterCriticalSectionOmitted ==
    /\ pc = "enterCS"
    /\ MainRuns
    /\ pc' = "isBusy"
    /\ UNCHANGED << sched, interruptStatus, primask, pmStatus, asleep, busy,
                    irqs, mosiDrive, widgets, hist, aux, calls, cycle >>

\* interruptStatus = Cy_SysLib_EnterCriticalSection(); before the while loop
EnterCriticalSection ==
    /\ pc = "enterCS"
    /\ MainRuns
    /\ interruptStatus' = primask
    /\ primask' = EnterCriticalSectionMask(primask)
    /\ pc' = "isBusy"
    /\ UNCHANGED << sched, pmStatus, asleep, busy, irqs, mosiDrive, widgets,
                    hist, aux, calls, cycle >>

\* while (Cy_CapSense_IsBusy(&cy_capsense_context))
WhileIsBusy ==
    /\ pc = "isBusy"
    /\ MainRuns
    /\ IF WaitCondition(busy)
       THEN pc' = "dsCheck" /\ stage' = stage
       ELSE IF appState = WOT_MODE
            THEN pc' = "process" /\ stage' = "wait"
            ELSE pc' = "exitCS" /\ stage' = stage
    /\ UNCHANGED << sched, interruptStatus, primask, pmStatus, asleep, busy,
                    irqs, mosiDrive, widgets, hist, aux, calls, scanKind, scans >>

\* Variant of DeepSleepCheckReady: a refused attempt has already put the MOSI
\* pin into its sleep configuration.
DeepSleepCheckReadyQuiesces ==
    /\ pc = "dsCheck"
    /\ MainRuns
    /\ \E ready \in BOOLEAN :
         IF ready
         THEN /\ mosiDrive' = mosiDrive
              /\ pc' = "dsBefore"
         ELSE /\ mosiDrive' =
                     DeepSleepCallback("CY_SYSPM_BEFORE_TRANSITION",
                                       mosiDrive).drive
              /\ pc' = AfterDeepSleep
    /\ UNCHANGED << sched, interruptStatus, primask, pmStatus, asleep, busy,
                    irqs, widgets, hist, aux, calls, cycle >>

\* Cy_SysPm_CpuEnterDeepSleep, first part: the registered callbacks are asked
\* CY_SYSPM_CHECK_READY in registration order (EZI2C, SPI, DeepSleepCallback).
\* A library callback that is not ready makes the call return without
\* sleeping, after CY_SYSPM_CHECK_FAIL went to the callbacks already asked.
DeepSleepCheckReady ==
    /\ pc = "dsCheck"
    /\ MainRuns
    /\ \E ready \in BOOLEAN :
         IF ready
         THEN /\ DeepSleepCallback("CY_SYSPM_CHECK_READY", mosiDrive).retValue
                     = "CY_SYSPM_SUCCESS"
              /\ mosiDrive' =
                     DeepSleepCallback("CY_SYSPM_CHECK_READY", mosiDrive).drive
              /\ pc' = "dsBefore"
         ELSE /\ mosiDrive' = mosiDrive
              /\ pc' = AfterDeepSleep
    /\ UNCHANGED << sched, interruptStatus, primask, pmStatus, asleep, busy,
                    irqs, widgets, hist, aux, calls, cycle >>

\* Cy_SysPm_CpuEnterDeepSleep, second part: interrupts are masked and the
\* callbacks get CY_SYSPM_BEFORE_TRANSITION.
DeepSleepBeforeTransition ==
    /\ pc = "dsBefore"
    /\ MainRuns
    /\ pmStatus' = primask
    /\ primask' = EnterCriticalSectionMask(primask)
    /\ mosiDrive' =
           DeepSleepCallback("CY_SYSPM_BEFORE_TRANSITION", mosiDrive).drive
    /\ driveBefore' = mosiDrive
    /\ pc' = "wfi"
    /\ UNCHANGED << sched, interruptStatus, asleep, busy, irqs, widgets,
                    hist, initError, timerCfg, cb, calls, cycle >>

\* The WFI instruction: falls through when an interrupt is pending (masked
\* or not), otherwise the core stops.
Wfi ==
    /\ pc = "wfi"
    /\ MainRuns
    /\ IF IrqPending
       THEN pc' = "dsAfter" /\ asleep' = FALSE
       ELSE pc' = pc /\ asleep' = TRUE
    /\ UNCHANGED << sched, interruptStatus, primask, pmStatus, busy, irqs,
                    mosiDrive, widgets, hist, aux, calls, cycle >>

\* A pending interrupt wakes the core from deep sleep.
WakeUp ==
    /\ asleep
    /\ IrqPending
    /\ asleep' = FALSE
    /\ pc' = "dsAfter"
    /\ UNCHANGED << sched, interruptStatus, primask, pmStatus, busy, irqs,
                    mosiDrive, widgets, hist, aux, calls, cycle >>

\* Variant of DeepSleepAfterTransition: the call returns without delivering
\* CY_SYSPM_AFTER_TRANSITION to DeepSleepCallback.
DeepSleepAfterTransitionNotDelivered ==
    /\ pc = "dsAfter"
    /\ MainRuns
    /\ mosiDrive' = mosiDrive
    /\ primask' = ExitCriticalSectionMask(pmStatus)
    /\ pc' = AfterDeepSleep
    /\ UNCHANGED << sched, interruptStatus, pmStatus, asleep, busy, irqs,
                    widgets, hist, aux, calls, cycle >>

\* Cy_SysPm_CpuEnterDeepSleep, last part: the callbacks get
\* CY_SYSPM_AFTER_TRANSITION, PRIMASK is restored and the call returns.
DeepSleepAfterTransition ==
    /\ pc = "dsAfter"
    /\ MainRuns
    /\ mosiDrive' =
           DeepSleepCallback("CY_SYSPM_AFTER_TRANSITION", mosiDrive).drive
    /\ primask' = ExitCriticalSectionMask(pmStatus)
    /\ pc' = AfterDeepSleep
    /\ UNCHANGED << sched, interruptStatus, pmStatus, asleep, busy, irqs,
                    widgets, hist, aux, calls, cycle >>

\* Cy_SysLib_ExitCriticalSection(interruptStatus); inside the while loop
LoopExitCriticalSection ==
    /\ pc = "loopExitCS"
    /\ MainRuns
    /\ primask' = ExitCriticalSectionMask(interruptStatus)
    /\ pc' = "loopEnterCS"
    /\ UNCHANGED << sched, interruptStatus, pmStatus, asleep, busy, irqs,
                    mosiDrive, widgets, hist, aux, calls, cycle >>

\* interruptStatus = Cy_SysLib_EnterCriticalSection(); inside the while loop
LoopEnterCriticalSection ==
    /\ pc = "loopEnterCS"
    /\ MainRuns
    /\ interruptStatus' = primask
    /\ primask' = EnterCriticalSectionMask(primask)
    /\ pc' = "isBusy"
    /\ UNCHANGED << sched, pmStatus, asleep, busy, irqs, mosiDrive, widgets,
                    hist, aux, calls, cycle >>

\* Cy_SysLib_ExitCriticalSection(interruptStatus); after the while loop
ExitCriticalSection ==
    /\ pc = "exitCS"
    /\ MainRuns
    /\ primask' = ExitCriticalSectionMask(interruptStatus)
    /\ pc' = "process"
    /\ stage' = "wait"
    /\ UNCHANGED << sched, interruptStatus, pmStatus, asleep, busy, irqs,
                    mosiDrive, widgets, hist, aux, calls, scanKind, scans >>

\* Cy_CapSense_ProcessAllWidgets (ACTIVE_MODE, ALR_MODE) or
\* Cy_CapSense_ProcessWidget(CY_CAPSENSE_LOWPOWER0_WDGT_ID) (WOT_MODE): the
\* widget statuses are whatever the sensors measured.
ProcessWidgets ==
    /\ pc = "process"
    /\ MainRuns
    /\ IF appState = WOT_MODE
       THEN /\ anyLpWidgetActive' \in BOOLEAN
            /\ anyWidgetActive' = anyWidgetActive
       ELSE /\ anyWidgetActive' \in BOOLEAN
            /\ anyLpWidgetActive' = anyLpWidgetActive
    /\ stage' = "process"
    /\ pc' = "evaluate"
    /\ UNCHANGED << sched, interruptStatus, primask, pmStatus, asleep, busy,
                    irqs, mosiDrive, hist, aux, calls, scanKind, scans >>

\* appStateTimeoutCount++ (a uint32_t; the counter stays far below 2^32, see
\* the timeouts, so the wrap of the increment is never taken)
Increment(count) == count + 1

\* Variant of TimedOut: the comparison is not strict.
TimedOutAtThreshold(timeout, count) == timeout <= count

\* Variant of TimedOut: the timeout is noticed one cycle late.
TimedOutLate(timeout, count) == timeout + 1 < count

\* if (ACTIVE_MODE_TIMEOUT < appStateTimeoutCount), and the ALR_MODE one
TimedOut(timeout, count) == timeout < count

\* Variant of ActiveModeNext: the timeout does not reconfigure the timer.
ActiveModeNextKeepsTimer(active, count, timer) ==
    IF active
    THEN [appState |-> ACTIVE_MODE, count |-> TIMEOUT_RESET, timer |-> timer,
          configure |-> FALSE]
    ELSE IF TimedOut(ACTIVE_MODE_TIMEOUT, Increment(count))
         THEN [appState |-> ALR_MODE, count |-> TIMEOUT_RESET,
               timer |-> timer,
          configure |-> FALSE]
         ELSE [appState |-> ACTIVE_MODE, count |-> Increment(count),
               timer |-> timer,
          configure |-> FALSE]

\* Variant of ActiveModeNext: activity does not reset the counter.
ActiveModeNextNoReset(active, count, timer) ==
    IF active
    THEN [appState |-> ACTIVE_MODE, count |-> count, timer |-> timer,
          configure |-> FALSE]
    ELSE IF TimedOut(ACTIVE_MODE_TIMEOUT, Increment(count))
         THEN [appState |-> ALR_MODE, count |-> TIMEOUT_RESET,
               timer |-> ALR_MODE_TIMER,
          configure |-> TRUE]
         ELSE [appState |-> ACTIVE_MODE, count |-> Increment(count),
               timer |-> timer,
          configure |-> FALSE]

\* case ACTIVE_MODE, after Cy_CapSense_ProcessAllWidgets: the mode, counter
\* Variant of ActiveModeNext: the timeout of ALR_MODE is compared.
ActiveModeNextAlrTimeout(active, count, timer) ==
    IF active
    THEN [appState |-> ACTIVE_MODE, count |-> TIMEOUT_RESET, timer |-> timer,
          configure |-> FALSE]
    ELSE IF TimedOut(ALR_MODE_TIMEOUT, Increment(count))
         THEN [appState |-> ALR_MODE, count |-> TIMEOUT_RESET,
               timer |-> ALR_MODE_TIMER, configure |-> TRUE]
         ELSE [appState |-> ACTIVE_MODE, count |-> Increment(count),
               timer |-> timer, configure |-> FALSE]

\* and wake timer left by
\*   if (Cy_CapSense_IsAnyWidgetActive(...)) ... else ...
ActiveModeNext(active, count, timer) ==
    IF active
    THEN [appState |-> ACTIVE_MODE, count |-> TIMEOUT_RESET, timer |-> timer,
          configure |-> FALSE]
    ELSE IF TimedOut(ACTIVE_MODE_TIMEOUT, Increment(count))
         THEN [appState |-> ALR_MODE, count |-> TIMEOUT_RESET,
               timer |-> ALR_MODE_TIMER,
          configure |-> TRUE]
         ELSE [appState |-> ACTIVE_MODE, count |-> Increment(count),
               timer |-> timer,
          configure |-> FALSE]

\* Variant of AlrModeNext: activity does not reconfigure the timer.
AlrModeNextKeepsTimer(active, count, timer) ==
    IF active
    THEN [appState |-> ACTIVE_MODE, count |-> TIMEOUT_RESET, timer |-> timer,
          configure |-> FALSE]
    ELSE IF TimedOut(ALR_MODE_TIMEOUT, Increment(count))
         THEN [appState |-> WOT_MODE, count |-> TIMEOUT_RESET,
               timer |-> timer,
          configure |-> FALSE]
         ELSE [appState |-> ALR_MODE, count |-> Increment(count),
               timer |-> timer,
          configure |-> FALSE]

\* Variant of AlrModeNext: the timeout does not reset the counter.
AlrModeNextNoReset(active, count, timer) ==
    IF active
    THEN [appState |-> ACTIVE_MODE, count |-> TIMEOUT_RESET,
          timer |-> ACTIVE_MODE_TIMER,
          configure |-> TRUE]
    ELSE IF TimedOut(ALR_MODE_TIMEOUT, Increment(count))
         THEN [appState |-> WOT_MODE, count |-> Increment(count),
               timer |-> timer,
          configure |-> FALSE]
         ELSE [appState |-> ALR_MODE, count |-> Increment(count),
               timer |-> timer,
          configure |-> FALSE]

\* case ALR_MODE, after Cy_CapSense_ProcessAllWidgets
AlrModeNext(active, count, timer) ==
    IF active
    THEN [appState |-> ACTIVE_MODE, count |-> TIMEOUT_RESET,
          timer |-> ACTIVE_MODE_TIMER,
          configure |-> TRUE]
    ELSE IF TimedOut(ALR_MODE_TIMEOUT, Increment(count))
         THEN [appState |-> WOT_MODE, count |-> TIMEOUT_RESET,
               timer |-> timer,
          configure |-> FALSE]
         ELSE [appState |-> ALR_MODE, count |-> Increment(count),
               timer |-> timer,
          configure |-> FALSE]

\* Variant of WotModeNext: without low-power activity the mode is kept.
WotModeNextStays(lpActive, count, timer) ==
    IF lpActive
    THEN [appState |-> ACTIVE_MODE, count |-> TIMEOUT_RESET,
          timer |-> ACTIVE_MODE_TIMER,
          configure |-> TRUE]
    ELSE [appState |-> WOT_MODE, count |-> TIMEOUT_RESET, timer |-> timer,
          configure |-> FALSE]

\* Variant of WotModeNext: the return to ALR_MODE relies on the timer that
\* ALR_MODE left behind and does not configure it.
WotModeNextNoAlrTimer(lpActive, count, timer) ==
    IF lpActive
    THEN [appState |-> ACTIVE_MODE, count |-> TIMEOUT_RESET,
          timer |-> ACTIVE_MODE_TIMER, configure |-> TRUE]
    ELSE [appState |-> ALR_MODE, count |-> TIMEOUT_RESET, timer |-> timer,
          configure |-> FALSE]

\* Variant of WotModeNext: without a touch the scheduler steps to the
\* enumerator after WOT_MODE, which APPLICATION_STATE does not have.
WotModeNextPastEnum(lpActive, count, timer) ==
    IF lpActive
    THEN [appState |-> ACTIVE_MODE, count |-> TIMEOUT_RESET,
          timer |-> ACTIVE_MODE_TIMER, configure |-> TRUE]
    ELSE [appState |-> WOT_MODE + 1, count |-> TIMEOUT_RESET,
          timer |-> ALR_MODE_TIMER, configure |-> TRUE]

\* Variant of WotModeNext: the return to ALR_MODE configures the timer with
\* the macro of ACTIVE_MODE.
WotModeNextActiveTimer(lpActive, count, timer) ==
    IF lpActive
    THEN [appState |-> ACTIVE_MODE, count |-> TIMEOUT_RESET,
          timer |-> ACTIVE_MODE_TIMER, configure |-> TRUE]
    ELSE [appState |-> ALR_MODE, count |-> TIMEOUT_RESET,
          timer |-> ACTIVE_MODE_TIMER, configure |-> TRUE]

\* case WOT_MODE, after Cy_CapSense_ProcessWidget
WotModeNext(lpActive, count, timer) ==
    IF lpActive
    THEN [appState |-> ACTIVE_MODE, count |-> TIMEOUT_RESET,
          timer |-> ACTIVE_MODE_TIMER,
          configure |-> TRUE]
    ELSE [appState |-> ALR_MODE, count |-> TIMEOUT_RESET,
          timer |-> ALR_MODE_TIMER,
          configure |-> TRUE]

\* The handler of the current mode evaluates the activity status "active".
Evaluate(active, next) ==
    /\ appState' = next.appState
    /\ appStateTimeoutCount' = next.count
    /\ msclpTimer' = next.timer
    /\ prevState' = appState
    /\ prevCount' = appStateTimeoutCount
    /\ prevTimer' = msclpTimer
    /\ sample' = active
    /\ quietCycles' = IF active \/ next.appState # appState
                          THEN 0 ELSE quietCycles + 1
    /\ timerCalls' = IF next.configure THEN timerCalls + 1 ELSE timerCalls
    /\ stage' = "query"
    /\ pc' = "updateLeds"
    /\ UNCHANGED << interruptStatus, primask, pmStatus, asleep, busy, irqs,
                    mosiDrive, widgets, scanKind, scans, ledRefreshes,
                    tunerRuns, aux >>

ActiveModeEvaluate ==
    /\ pc = "evaluate"
    /\ MainRuns
    /\ appState = ACTIVE_MODE
    /\ Evaluate(anyWidgetActive,
                ActiveModeNext(anyWidgetActive, appStateTimeoutCount,
                               msclpTimer))

AlrModeEvaluate ==
    /\ pc = "evaluate"
    /\ MainRuns
    /\ appState = ALR_MODE
    /\ Evaluate(anyWidgetActive,
                AlrModeNext(anyWidgetActive, appStateTimeoutCount,
                            msclpTimer))

WotModeEvaluate ==
    /\ pc = "evaluate"
    /\ MainRuns
    /\ appState = WOT_MODE
    /\ Evaluate(anyLpWidgetActive,
                WotModeNext(anyLpWidgetActive, appStateTimeoutCount,
                            msclpTimer))

\* Variant of UpdateLeds: the LEDs are refreshed only in a cycle that
\* changed the mode.
UpdateLedsOnTransition ==
    /\ pc = "updateLeds"
    /\ MainRuns
    /\ stage' = "leds"
    /\ ledRefreshes' = IF appState # prevState THEN ledRefreshes + 1
                                               ELSE ledRefreshes
    /\ pc' = "runTuner"
    /\ UNCHANGED << sched, interruptStatus, primask, pmStatus, asleep, busy,
                    irqs, mosiDrive, widgets, hist, aux, timerCalls, tunerRuns,
                    scanKind, scans >>

\* UpdateLeds(); at the end of the cycle (ENABLE_SPI_SERIAL_LED is 1)
UpdateLeds ==
    /\ pc = "updateLeds"
    /\ MainRuns
    /\ stage' = "leds"
    /\ ledRefreshes' = ledRefreshes + 1
    /\ pc' = "runTuner"
    /\ UNCHANGED << sched, interruptStatus, primask, pmStatus, asleep, busy,
                    irqs, mosiDrive, widgets, hist, aux, timerCalls, tunerRuns,
                    scanKind, scans >>

\* Cy_CapSense_RunTuner(...); (ENABLE_TUNER is 1), then the next iteration
RunTuner ==
    /\ pc = "runTuner"
    /\ MainRuns
    /\ stage' = "tuner"
    /\ tunerRuns' = tunerRuns + 1
    /\ scanKind' = "none"
    /\ scans' = 0
    /\ pc' = "switch"
    /\ UNCHANGED << sched, interruptStatus, primask, pmStatus, asleep, busy,
                    irqs, mosiDrive, widgets, hist, aux, timerCalls,
                    ledRefreshes >>

----------------------------------------------------------------------------
(* Interrupt handlers: taken when pending and not masked *)

\* Variant of Capsense_Msc0Isr: the handler also restarts the timeout
\* counter of the scheduler.
Capsense_Msc0IsrResetsCount ==
    /\ ~asleep
    /\ ~primask
    /\ mscIrq
    /\ mscIrq' = FALSE
    /\ busy' = IF hwLeft = 0 THEN FALSE ELSE busy
    /\ appStateTimeoutCount' = TIMEOUT_RESET
    /\ UNCHANGED << appState, msclpTimer, interruptStatus, pc, primask,
                    pmStatus, asleep, hwLeft, ezi2cIrq, mosiDrive, widgets,
                    hist, aux, calls, cycle >>

\* Capsense_Msc0Isr -> Cy_CapSense_InterruptHandler: the handler of the last
\* interrupt of a scan clears the busy status.
Capsense_Msc0Isr ==
    /\ ~asleep
    /\ ~primask
    /\ mscIrq
    /\ mscIrq' = FALSE
    /\ busy' = IF hwLeft = 0 THEN FALSE ELSE busy
    /\ UNCHANGED << sched, interruptStatus, pc, primask, pmStatus, asleep,
                    hwLeft, ezi2cIrq, mosiDrive, widgets, hist, aux, calls, cycle >>

\* Ezi2cIsr -> Cy_SCB_EZI2C_Interrupt
Ezi2cIsr ==
    /\ ~asleep
    /\ ~primask
    /\ ezi2cIrq
    /\ ezi2cIrq' = FALSE
    /\ UNCHANGED << sched, interruptStatus, pc, primask, pmStatus, asleep,
                    busy, hwLeft, mscIrq, mosiDrive, widgets, hist, aux, calls, cycle >>

----------------------------------------------------------------------------
(* Hardware *)

\* The MSCLP block raises its interrupt: scan (or one part of it) finished.
MsclpInterrupt ==
    /\ hwLeft > 0
    /\ ~mscIrq
    /\ mscIrq' = TRUE
    /\ hwLeft' = hwLeft - 1
    /\ UNCHANGED << sched, interruptStatus, pc, primask, pmStatus, asleep,
                    busy, ezi2cIrq, mosiDrive, widgets, hist, aux, calls, cycle >>

\* NVIC_EnableIRQ(ezi2cIntrConfig.intrSrc) has been reached.
Ezi2cEnabled ==
    /\ pc \notin {"cybsp_init", "tunerInit"}
    /\ initError \notin {"cybsp_init", "Cy_SCB_EZI2C_Init"}

\* The I2C host (the tuner) addresses the EZI2C slave.
Ezi2cInterrupt ==
    /\ Ezi2cEnabled
    /\ ~ezi2cIrq
    /\ ezi2cIrq' = TRUE
    /\ UNCHANGED << sched, interruptStatus, pc, primask, pmStatus, asleep,
                    busy, hwLeft, mscIrq, mosiDrive, widgets, hist, aux, calls, cycle >>

----------------------------------------------------------------------------
(* The wake timer of a mode, for other values of the configuration macros *)

\* The state in which main() is at position pc0 with the given scheduler
\* state, pin drive mode, timer macros and callback record, no scan started.
StateAt(pc0, appState0, count0, timer0, drive0, cfg0, cb0) ==
    /\ appState = appState0
    /\ appStateTimeoutCount = count0
    /\ interruptStatus = FALSE
    /\ pc = pc0
    /\ primask = FALSE
    /\ pmStatus = FALSE
    /\ asleep = FALSE
    /\ busy = FALSE
    /\ hwLeft = 0
    /\ mscIrq = FALSE
    /\ ezi2cIrq = FALSE
    /\ msclpTimer = timer0
    /\ mosiDrive = drive0
    /\ anyWidgetActive = FALSE
    /\ anyLpWidgetActive = FALSE
    /\ prevState = appState0
    /\ prevCount = count0
    /\ prevTimer = timer0
    /\ sample = FALSE
    /\ quietCycles = 0
    /\ scanKind = "none"
    /\ scans = 0
    /\ stage = "idle"
    /\ timerCalls = 0
    /\ ledRefreshes = 0
    /\ tunerRuns = 0
    /\ driveBefore = "none"
    /\ initError = "none"
    /\ timerCfg = cfg0
    /\ cb = cb0

TimerRates ==
    {ALR_MODE_REFRESH_RATE, ACTIVE_MODE_REFRESH_RATE}
        \cup ((MaxTimerRate - 7)..MaxTimerRate)

TimerScanTimes ==
    (ACTIVE_MODE_FRAME_SCAN_TIME - MaxTimeDelta)
        ..(ACTIVE_MODE_FRAME_SCAN_TIME + MaxTimeDelta)

TimerProcessTimes ==
    {ACTIVE_MODE_PROCESS_TIME, ACTIVE_MODE_PROCESS_TIME + MaxTimeDelta}

\* main() is about to configure the wake timer of a mode whose macros have
\* any of the values above; no reload (0) has been given to the block yet.
TimerInit ==
    \E r \in TimerRates, st \in TimerScanTimes, pt \in TimerProcessTimes :
        StateAt("configureTimer", ACTIVE_MODE, 0, 0, CY_GPIO_DM_STRONG_IN_OFF,
                [rate |-> r, scanTime |-> st, processTime |-> pt],
                [mode |-> "none", retValue |-> "none"])

\* Cy_CapSense_ConfigureMsclpTimer(ACTIVE_MODE_TIMER, ...) before the loop,
\* with the macro expanded for the configuration at hand.
ConfigureMsclpTimer ==
    /\ pc = "configureTimer"
    /\ MainRuns
    /\ msclpTimer' = ModeTimer(timerCfg.rate, timerCfg.scanTime,
                               timerCfg.processTime)
    /\ timerCalls' = timerCalls + 1
    /\ pc' = "switch"
    /\ UNCHANGED << appState, appStateTimeoutCount, interruptStatus, primask,
                    pmStatus, asleep, busy, irqs, mosiDrive, widgets, hist,
                    cycle, ledRefreshes, tunerRuns, aux >>

TimerSpec == TimerInit /\ [][ConfigureMsclpTimer]_vars

----------------------------------------------------------------------------
(* DeepSleepCallback on its own: one call for each callback mode *)

MaxCallbackCount == 12

\* The values of cy_en_syspm_callback_mode_t.
CallbackModes ==
    {"CY_SYSPM_CHECK_READY", "CY_SYSPM_CHECK_FAIL",
     "CY_SYSPM_BEFORE_TRANSITION", "CY_SYSPM_AFTER_TRANSITION"}

\* The MOSI drive mode the power manager can deliver the mode in: the pin is
\* analog only between the two transitions.
DriveAtCallback(mode) ==
    IF mode = "CY_SYSPM_AFTER_TRANSITION" THEN CY_GPIO_DM_ANALOG
                                          ELSE ActiveDriveMode

\* The scheduler states a deep sleep is requested in: the mode with its
\* timer, and the counter (zero in WOT_MODE).
CallbackInit ==
    \E mode \in CallbackModes,
       state \in {ACTIVE_MODE, ALR_MODE, WOT_MODE},
       count \in 0..MaxCallbackCount :
        /\ (state = WOT_MODE => count = TIMEOUT_RESET)
        /\ StateAt("callback", state, count,
                   IF state = ACTIVE_MODE THEN ACTIVE_MODE_TIMER
                                          ELSE ALR_MODE_TIMER,
                   DriveAtCallback(mode),
                   [rate |-> ACTIVE_MODE_REFRESH_RATE,
                    scanTime |-> ACTIVE_MODE_FRAME_SCAN_TIME,
                    processTime |-> ACTIVE_MODE_PROCESS_TIME],
                   [mode |-> mode, retValue |-> "none"])

\* One call DeepSleepCallback(callbackParams, cb.mode)
CallDeepSleepCallback ==
    /\ pc = "callback"
    /\ cb' = [mode |-> cb.mode,
              retValue |-> DeepSleepCallback(cb.mode, mosiDrive).retValue]
    /\ mosiDrive' = DeepSleepCallback(cb.mode, mosiDrive).drive
    /\ pc' = "callbackDone"
    /\ UNCHANGED << sched, interruptStatus, primask, pmStatus, asleep, busy,
                    irqs, widgets, hist, cycle, calls, driveBefore,
                    initError, timerCfg >>

CallbackSpec == CallbackInit /\ [][CallDeepSleepCallback]_vars

----------------------------------------------------------------------------
(* main() before the for(;;) loop *)

\* Reset: main() starts, nothing is initialized, the pins are high-Z.
StartupInit ==
    StateAt("cybsp_init", ACTIVE_MODE, 0, 0, CY_GPIO_DM_ANALOG,
            [rate |-> ACTIVE_MODE_REFRESH_RATE,
             scanTime |-> ACTIVE_MODE_FRAME_SCAN_TIME,
             processTime |-> ACTIVE_MODE_PROCESS_TIME],
            [mode |-> "none", retValue |-> "none"])

\* A startup step that changes pc and, on a failure it acts on, initError.
StartupStep(to, error) ==
    /\ MainRuns
    /\ pc' = to
    /\ initError' = error
    /\ UNCHANGED << sched, interruptStatus, primask, pmStatus, asleep, busy,
                    irqs, widgets, hist, cycle, calls, driveBefore,
                    timerCfg, cb >>

\* result = cybsp_init(); if (result != CY_RSLT_SUCCESS) CY_ASSERT(...);
\* __enable_irq();
CybspInit ==
    /\ pc = "cybsp_init"
    /\ \E ok \in BOOLEAN :
         IF ok THEN StartupStep("tunerInit", initError)
               ELSE StartupStep("halted", "cybsp_init")
    /\ mosiDrive' = mosiDrive

\* InitializeCapsenseTuner(): Cy_SCB_EZI2C_Init and, when it fails, CY_ASSERT
InitializeCapsenseTuner ==
    /\ pc = "tunerInit"
    /\ \E ok \in BOOLEAN :
         IF ok THEN StartupStep("spiInit", initError)
               ELSE StartupStep("halted", "Cy_SCB_EZI2C_Init")
    /\ mosiDrive' = mosiDrive

\* result = InitSpiMaster(); if (result != INIT_SUCCESS) CY_ASSERT(0);
\* then RegisterCallback(), appState = ACTIVE_MODE, appStateTimeoutCount = 0
InitSpiMaster ==
    /\ pc = "spiInit"
    /\ \E ok \in BOOLEAN :
         IF ok THEN /\ StartupStep("capsenseInit", initError)
                    /\ mosiDrive' = ActiveDriveMode
               ELSE /\ StartupStep("halted", "InitSpiMaster")
                    /\ mosiDrive' = mosiDrive

\* The status InitializeCapsense ends with: that of Cy_CapSense_Init or,
\* when that succeeded, that of Cy_CapSense_Enable.
CapsenseStatus(initOk, enableOk) ==
    IF initOk /\ enableOk THEN "CY_CAPSENSE_STATUS_SUCCESS"
                          ELSE "CY_CAPSENSE_STATUS_BAD"

\* if (status != CY_CAPSENSE_STATUS_SUCCESS) { } at the end of
\* InitializeCapsense: the body is empty, main() goes on either way to
\* UpdateLeds(), Cy_CapSense_IloCompensate and the timer configuration.
AfterInitializeCapsense(status) == "configureTimer"

\* InitializeCapsense(); UpdateLeds(); Cy_CapSense_IloCompensate(...);
InitializeCapsense ==
    /\ pc = "capsenseInit"
    /\ \E initOk \in BOOLEAN, enableOk \in BOOLEAN :
         StartupStep(AfterInitializeCapsense(CapsenseStatus(initOk, enableOk)),
                     IF CapsenseStatus(initOk, enableOk)
                            = "CY_CAPSENSE_STATUS_SUCCESS"
                     THEN initError ELSE "Cy_CapSense_Init")
    /\ mosiDrive' = mosiDrive

Startup ==
    \/ CybspInit
    \/ InitializeCapsenseTuner
    \/ InitSpiMaster
    \/ InitializeCapsense
    \/ ConfigureMsclpTimer

----------------------------------------------------------------------------

Main ==
    \/ SwitchAppState
    \/ EnterCriticalSection
    \/ WhileIsBusy
    \/ DeepSleepCheckReady
    \/ DeepSleepBeforeTransition
    \/ Wfi
    \/ WakeUp
    \/ DeepSleepAfterTransition
    \/ LoopExitCriticalSection
    \/ LoopEnterCriticalSection
    \/ ExitCriticalSection
    \/ ProcessWidgets
    \/ ActiveModeEvaluate
    \/ AlrModeEvaluate
    \/ WotModeEvaluate
    \/ UpdateLeds
    \/ RunTuner

Next ==
    \/ Main
    \/ Capsense_Msc0Isr
    \/ Ezi2cIsr
    \/ MsclpInterrupt
    \/ Ezi2cInterrupt

Spec == Init /\ [][Next]_vars

\* main() from reset: the startup steps, then the loop.
StartupSpec == StartupInit /\ [][Startup \/ Next]_vars

\* The sensors are never touched or approached.
NoActivity == ~anyWidgetActive /\ ~anyLpWidgetActive

QuietMain == Main /\ NoActivity'

QuietNext ==
    \/ QuietMain
    \/ Capsense_Msc0Isr
    \/ Ezi2cIsr
    \/ MsclpInterrupt
    \/ Ezi2cInterrupt

\* The loop with no activity ever: the core keeps executing, the handlers
\* run when they can and the MSCLP block finishes the scan it was given.
QuietSpec ==
    /\ Init
    /\ [][QuietNext]_vars
    /\ SF_vars(QuietMain)
    /\ WF_vars(Capsense_Msc0Isr)
    /\ WF_vars(Ezi2cIsr)
    /\ WF_vars(MsclpInterrupt)

\* The core keeps executing: an interrupt handler that can run does run, and
\* main() is not starved by interrupts.
FairSpec ==
    /\ Spec
    /\ SF_vars(Main)
    /\ WF_vars(Capsense_Msc0Isr)
    /\ WF_vars(Ezi2cIsr)

----------------------------------------------------------------------------
(* Claims *)

InWaitLoop ==
    pc \in {"isBusy", "dsCheck", "dsBefore", "wfi", "dsAfter", "loopExitCS",
            "loopEnterCS"}

\* The MSCLP block has raised the last interrupt of the scan in progress.
ScanCompleted == busy /\ hwLeft = 0

\* The handler of the cycle has just evaluated its activity sample.
Evaluated == stage = "query"

\* C1: in the ACTIVE_MODE and ALR_MODE wait loops the completion interrupt
\* is never lost.  Whenever main() is past the busy check and on its way to
\* the WFI, or asleep in it, the engine is still busy and the interrupt that
\* ends the wait is pending or still to come, so the core never sleeps with
\* the engine no longer busy; and once the block has raised the last
\* interrupt of the scan the wait loop is left.
C1_CompletionNeverLost ==
    /\ [](appState \in {ACTIVE_MODE, ALR_MODE}
            /\ pc \in {"dsCheck", "dsBefore", "wfi"}
          => busy /\ primask /\ (mscIrq \/ hwLeft > 0))
    /\ [](appState \in {ACTIVE_MODE, ALR_MODE} /\ asleep => busy)
    /\ ((appState \in {ACTIVE_MODE, ALR_MODE} /\ InWaitLoop /\ ScanCompleted)
           ~> (pc = "process"))

\* C1 witness: the last interrupt of the scan arrived after the busy check
\* and before the WFI, with interrupts masked.
C1_Witness ==
    /\ appState = ALR_MODE
    /\ pc = "dsBefore"
    /\ primask
    /\ mscIrq
    /\ hwLeft = 0
    /\ busy

\* C2 (as claimed): in the WOT_MODE wait loop, whatever the interleaving of
\* the completion interrupt with the busy check and the sleep entry, the
\* core is never asleep with the engine no longer busy.
C2_WotNeverAsleepWhenDone ==
    (appState = WOT_MODE /\ asleep) => busy

\* C3: a cycle evaluated in ACTIVE_MODE with an active sample leaves the
\* counter at 0 and the mode and timer as they were; with an inactive sample
\* the counter is one higher and, only when the incremented counter is above
\* 640, the mode becomes ALR_MODE, the counter 0 and the timer the ALR_MODE
\* reload (28336); otherwise mode and timer are as they were.
C3_ActiveModeRule ==
    (Evaluated /\ prevState = ACTIVE_MODE) =>
        IF sample
        THEN /\ appStateTimeoutCount = 0
             /\ appState = ACTIVE_MODE
             /\ msclpTimer = prevTimer
        ELSE IF prevCount + 1 > 640
             THEN /\ appState = ALR_MODE
                  /\ appStateTimeoutCount = 0
                  /\ msclpTimer = 28336
             ELSE /\ appState = ACTIVE_MODE
                  /\ appStateTimeoutCount = prevCount + 1
                  /\ msclpTimer = prevTimer

\* C3 witness: the last inactive ACTIVE_MODE cycle that does not time out.
C3_Witness ==
    /\ Evaluated
    /\ prevState = ACTIVE_MODE
    /\ ~sample
    /\ prevCount = 639
    /\ appStateTimeoutCount = 640
    /\ appState = ACTIVE_MODE

\* C4: a cycle evaluated in ALR_MODE with an active sample ends in
\* ACTIVE_MODE with the counter 0 and the timer the ACTIVE_MODE reload (4898),
\* whatever the counter was; with an inactive sample the counter is one
\* higher and, only when the incremented counter is above 160, the mode
\* becomes WOT_MODE with the counter 0; the timer is then as it was.
C4_AlrModeRule ==
    (Evaluated /\ prevState = ALR_MODE) =>
        IF sample
        THEN /\ appState = ACTIVE_MODE
             /\ appStateTimeoutCount = 0
             /\ msclpTimer = 4898
        ELSE IF prevCount + 1 > 160
             THEN /\ appState = WOT_MODE
                  /\ appStateTimeoutCount = 0
                  /\ msclpTimer = prevTimer
             ELSE /\ appState = ALR_MODE
                  /\ appStateTimeoutCount = prevCount + 1
                  /\ msclpTimer = prevTimer

\* C4 witness: an active sample in ALR_MODE after a run of inactive cycles.
C4_Witness ==
    /\ Evaluated
    /\ prevState = ALR_MODE
    /\ sample
    /\ prevCount = 100
    /\ prevTimer = 28336
    /\ appState = ACTIVE_MODE
    /\ msclpTimer = 4898

\* C5: a cycle evaluated in WOT_MODE has triggered exactly one scan, the
\* low-power one, and ends in ACTIVE_MODE with the ACTIVE_MODE reload when a
\* low-power widget is active and in ALR_MODE with the ALR_MODE reload
\* otherwise; a cycle that starts in WOT_MODE never follows a WOT_MODE cycle.
C5_WotLeavesAfterOneScan ==
    /\ (Evaluated /\ prevState = WOT_MODE) =>
           /\ scans = 1
           /\ scanKind = "lp"
           /\ IF sample
              THEN appState = ACTIVE_MODE /\ msclpTimer = 4898
              ELSE appState = ALR_MODE /\ msclpTimer = 28336
    /\ (appState = WOT_MODE) =>
           /\ prevState = ALR_MODE
           /\ (stage \in {"scan", "wait", "process"} =>
                   scans = 1 /\ scanKind = "lp")

\* C5 witness: WOT_MODE left for ALR_MODE without low-power activity.
C5_Witness ==
    /\ Evaluated
    /\ prevState = WOT_MODE
    /\ ~sample
    /\ appState = ALR_MODE
    /\ msclpTimer = 28336
    /\ scans = 1

\* C6 (as claimed): from ACTIVE_MODE with the counter at ACTIVE_MODE_TIMEOUT-1
\* (639), one cycle with an inactive sample ends in ALR_MODE with the counter
\* 0 and the timer the ALR_MODE reload.
C6_TimeoutMinusOneTransitions ==
    (Evaluated /\ prevState = ACTIVE_MODE /\ prevCount = 639 /\ ~sample) =>
        /\ appState = ALR_MODE
        /\ appStateTimeoutCount = 0
        /\ msclpTimer = 28336

\* C6 (amended): from ACTIVE_MODE with the counter at ACTIVE_MODE_TIMEOUT
\* (640), one cycle with an inactive sample ends in ALR_MODE with the counter
\* 0 and the timer the ALR_MODE reload; with the counter at 639 the cycle
\* stays in ACTIVE_MODE with the counter at 640 and the timer unchanged.
C6_TimeoutTransitions ==
    /\ (Evaluated /\ prevState = ACTIVE_MODE /\ prevCount = 640 /\ ~sample) =>
           /\ appState = ALR_MODE
           /\ appStateTimeoutCount = 0
           /\ msclpTimer = 28336
    /\ (Evaluated /\ prevState = ACTIVE_MODE /\ prevCount = 639 /\ ~sample) =>
           /\ appState = ACTIVE_MODE
           /\ appStateTimeoutCount = 640
           /\ msclpTimer = prevTimer

\* C6 witness: the inactive cycle that starts with the counter at 640.
C6_Witness ==
    /\ Evaluated
    /\ prevState = ACTIVE_MODE
    /\ prevCount = 640
    /\ ~sample
    /\ appState = ALR_MODE
    /\ prevTimer = 4898

\* C7 (as claimed): in every mode a cycle with an active sample leaves the
\* counter at 0 and a cycle with an inactive sample leaves it exactly one
\* higher than before the cycle.
C7_ResetOrIncrementInEveryMode ==
    Evaluated =>
        IF sample
        THEN appStateTimeoutCount = 0
        ELSE appStateTimeoutCount = prevCount + 1

\* C7 (amended): a cycle with an active sample leaves the counter at 0; a
\* cycle with an inactive sample in ACTIVE_MODE or ALR_MODE leaves it exactly
\* one higher, unless the incremented counter is above the timeout of the
\* mode (640, 160), and then, as after every WOT_MODE cycle, the counter is 0.
C7_ResetOrIncrementUnlessTransition ==
    Evaluated =>
        IF sample
        THEN appStateTimeoutCount = 0
        ELSE IF \/ prevState = WOT_MODE
                \/ prevState = ACTIVE_MODE /\ prevCount + 1 > 640
                \/ prevState = ALR_MODE /\ prevCount + 1 > 160
             THEN appStateTimeoutCount = 0
             ELSE appStateTimeoutCount = prevCount + 1

\* C7 witness: an inactive ALR_MODE cycle that counts up.
C7_Witness ==
    /\ Evaluated
    /\ prevState = ALR_MODE
    /\ ~sample
    /\ prevCount = 7
    /\ appStateTimeoutCount = 8

\* C8: the counter is 0 right after every cycle that changed the mode and
\* right after every cycle whose sample was active.
C8_ZeroAfterTransitionOrActivity ==
    (Evaluated /\ (appState # prevState \/ sample)) =>
        appStateTimeoutCount = 0

\* C8 witness: ALR_MODE timed out into WOT_MODE.
C8_Witness ==
    /\ Evaluated
    /\ prevState = ALR_MODE
    /\ appState = WOT_MODE
    /\ prevCount = 160
    /\ appStateTimeoutCount = 0

\* C9: widget processing and the activity query run only when the scan of
\* the cycle is no longer busy, and a cycle goes trigger, wait, process,
\* query: the wait has returned (stage "wait") only after exactly one scan
\* was triggered and with the engine not busy, processing starts from there
\* and the query follows the processing.
C9_ProcessAfterScanDone ==
    /\ pc \in {"process", "evaluate"} => ~busy /\ hwLeft = 0 /\ ~mscIrq
    /\ stage \in {"wait", "process", "query"} => ~busy /\ scans = 1
    /\ pc = "process" => stage = "wait"
    /\ pc = "evaluate" => stage = "process"
    /\ stage = "scan" => InWaitLoop \/ pc \in {"enterCS", "exitCS"}

\* C9 witness: the low-power widget is about to be queried after its scan.
C9_Witness ==
    /\ pc = "evaluate"
    /\ appState = WOT_MODE
    /\ scanKind = "lp"
    /\ stage = "process"
    /\ ~busy

\* C10: a scan is triggered only when no scan is outstanding: wherever
\* main() is about to trigger one, the engine is not busy and the MSCLP block
\* has no interrupt of an earlier scan left to raise or pending; no cycle
\* triggers more than one scan.
C10_OneScanOutstanding ==
    /\ pc = "switch" => ~busy /\ hwLeft = 0 /\ ~mscIrq
    /\ scans <= 1

\* C10 witness: the next full scan is due after a WOT_MODE scan completed.
C10_Witness ==
    /\ pc = "switch"
    /\ prevState = WOT_MODE
    /\ appState = ACTIVE_MODE
    /\ ~busy
    /\ scans = 0

\* The period of a refresh rate less the scan and process time, in us.
TimerMargin(cfg) ==
    (1000000 \div cfg.rate) - (cfg.scanTime + cfg.processTime)

\* C11 (as claimed): for every configuration the reload given to the block
\* is max(25, 1000000/rate - (scan time + process time)); it is 4898 for
\* 128 Hz, 2891 us, 23 us, and it is never below 25.
C11_TimerReloadIsClampedMax ==
    (pc = "switch" /\ stage = "idle" /\ timerCalls = 1) =>
        /\ msclpTimer =
               IF TimerMargin(timerCfg) > 25 THEN TimerMargin(timerCfg)
                                             ELSE 25
        /\ msclpTimer >= 25
        /\ (timerCfg = [rate |-> 128, scanTime |-> 2891, processTime |-> 23]
               => msclpTimer = 4898)

\* C12 (as claimed): a cycle that changed the mode has given the reload of
\* the new mode to the wake timer.
C12_TimerAppliedOnEveryTransition ==
    (Evaluated /\ appState # prevState) =>
        /\ timerCalls = 1
        /\ appState = ACTIVE_MODE => msclpTimer = 4898
        /\ appState = ALR_MODE => msclpTimer = 28336

\* C12 (amended): a cycle that changed the mode to ACTIVE_MODE or ALR_MODE
\* has given the reload of the new mode to the wake timer, in one call; the
\* cycle that changed ALR_MODE to WOT_MODE has made no call and left the
\* timer as it was.
C12_TimerAppliedUnlessToWot ==
    (Evaluated /\ appState # prevState) =>
        IF appState = WOT_MODE
        THEN timerCalls = 0 /\ msclpTimer = prevTimer
        ELSE /\ timerCalls = 1
             /\ appState = ACTIVE_MODE => msclpTimer = 4898
             /\ appState = ALR_MODE => msclpTimer = 28336

\* C12 witness: WOT_MODE left for ACTIVE_MODE, the timer changed to 4898.
C12_Witness ==
    /\ Evaluated
    /\ prevState = WOT_MODE
    /\ appState = ACTIVE_MODE
    /\ prevTimer = 28336
    /\ msclpTimer = 4898
    /\ timerCalls = 1

\* C13 (as claimed): after a startup step reported a failure no scan is
\* ever triggered: main() never enters a cycle of the for(;;) loop.
C13_FailedStartupNeverScans ==
    initError # "none" => stage = "idle" /\ scans = 0 /\ ~busy

\* C14: the mode is always one of ACTIVE_MODE, ALR_MODE and WOT_MODE, and
\* the default branch of the switch (the assertion) is never taken.
C14_ModeAlwaysValid ==
    /\ appState \in {ACTIVE_MODE, ALR_MODE, WOT_MODE}
    /\ pc # "assert"

\* The switch is about to dispatch on WOT_MODE, just entered from ALR_MODE.
C14_Witness ==
    /\ pc = "switch"
    /\ appState = WOT_MODE
    /\ prevState = ALR_MODE
    /\ stage = "tuner"

\* A step in which a registered callback refuses CY_SYSPM_CHECK_READY.
SleepRefused == pc = "dsCheck" /\ pc' \notin {"dsCheck", "dsBefore"}

\* C15: a deep-sleep attempt refused in CY_SYSPM_CHECK_READY changes neither
\* the mode, the counter, the wake timer nor the MOSI drive mode and does not
\* stop the core; control is back in the wait loop, which asks for deep
\* sleep again as long as the scan is busy.
C15_RefusedSleepHasNoEffect ==
    /\ [][SleepRefused =>
            /\ UNCHANGED << sched, mosiDrive, driveBefore, primask, busy >>
            /\ ~asleep'
            /\ pc' \in {"loopExitCS", "isBusy"}]_vars
    /\ [][(pc = "isBusy" /\ busy /\ pc' # pc) => pc' = "dsCheck"]_vars

\* Back in the ACTIVE/ALR wait loop with the scan still running and no
\* interrupt pending: the core did not sleep (a wake-up leaves its interrupt
\* pending here), the attempt was refused.
C15_Witness ==
    /\ pc = "loopExitCS"
    /\ busy
    /\ ~mscIrq
    /\ ~ezi2cIrq
    /\ mosiDrive = CY_GPIO_DM_STRONG_IN_OFF

\* C16: when CY_SYSPM_AFTER_TRANSITION has been delivered at the end of a
\* deep sleep, the MOSI pin has the drive mode it had when
\* CY_SYSPM_BEFORE_TRANSITION was delivered at its start; in between it is
\* analog high-Z.
C16_AfterTransitionRestoresDrive ==
    /\ [][(pc = "dsAfter" /\ pc' # pc) => mosiDrive' = driveBefore]_vars
    /\ [][(pc = "dsBefore" /\ pc' # pc) =>
              (driveBefore' = mosiDrive /\ mosiDrive' = CY_GPIO_DM_ANALOG)]_vars

\* A deep sleep has completed (both transitions delivered) and the pin is
\* as it was before.
C16_Witness ==
    /\ pc = "loopExitCS"
    /\ driveBefore # "none"
    /\ mosiDrive = driveBefore

\* C17: DeepSleepCallback returns CY_SYSPM_SUCCESS in each of its four
\* modes, and in CY_SYSPM_CHECK_READY and CY_SYSPM_CHECK_FAIL it leaves the
\* MOSI drive mode, the mode, the counter and the timer as they are.
C17_CallbackSucceedsAndChecksAreInert ==
    [][(pc = "callback" /\ pc' = "callbackDone") =>
          /\ cb'.retValue = "CY_SYSPM_SUCCESS"
          /\ cb.mode \in {"CY_SYSPM_CHECK_READY", "CY_SYSPM_CHECK_FAIL"}
                => UNCHANGED << sched, mosiDrive >>]_vars

\* CY_SYSPM_CHECK_FAIL has been delivered in WOT_MODE and has returned.
C17_Witness ==
    /\ pc = "callbackDone"
    /\ cb.mode = "CY_SYSPM_CHECK_FAIL"
    /\ cb.retValue = "CY_SYSPM_SUCCESS"
    /\ appState = WOT_MODE

\* A step of one of the two interrupt handlers: its pending bit is cleared.
IsrStep == (mscIrq /\ ~mscIrq') \/ (ezi2cIrq /\ ~ezi2cIrq')

\* C18: Capsense_Msc0Isr and Ezi2cIsr, wherever they interrupt main(), leave
\* appState and appStateTimeoutCount alone: these two change only in the
\* step of main() that evaluates the cycle.
C18_OnlyMainWritesSchedulerState ==
    /\ [][IsrStep => UNCHANGED << appState, appStateTimeoutCount >>]_vars
    /\ [][(appState' # appState
              \/ appStateTimeoutCount' # appStateTimeoutCount)
            => (pc = "evaluate" /\ pc' = "updateLeds")]_vars

\* In ALR_MODE with a counter above zero the scan-completion handler has run
\* inside the wait loop (the scan of this cycle is no longer busy).
C18_Witness ==
    /\ pc = "loopEnterCS"
    /\ stage = "scan"
    /\ ~busy
    /\ appState = ALR_MODE
    /\ appStateTimeoutCount > 0

\* C20: in every cycle, in every mode and with or without a transition,
\* UpdateLeds runs exactly once and then Cy_CapSense_RunTuner exactly once,
\* both after the evaluation of the cycle and before the next scan is
\* triggered.
C20_LedsThenTunerOncePerCycle ==
    /\ [](/\ stage \in {"scan", "wait", "process", "query"}
              => (ledRefreshes = 0 /\ tunerRuns = 0)
          /\ pc = "updateLeds" => stage = "query"
          /\ stage = "leds"
              => (ledRefreshes = 1 /\ tunerRuns = 0 /\ pc = "runTuner")
          /\ stage = "tuner"
              => (ledRefreshes = 1 /\ tunerRuns = 1 /\ pc = "switch"))
    /\ [][(stage' = "scan" /\ stage # "scan")
            => \/ stage = "idle"
               \/ (stage = "tuner" /\ ledRefreshes = 1 /\ tunerRuns = 1)]_vars

\* The end of an ALR_MODE cycle that kept the mode: LEDs refreshed once,
\* tuner run once, the next scan not yet triggered.
C20_Witness ==
    /\ pc = "switch"
    /\ stage = "tuner"
    /\ ledRefreshes = 1
    /\ tunerRuns = 1
    /\ appState = ALR_MODE
    /\ prevState = ALR_MODE

\* C21: whenever Cy_CapSense_ScanAllSlots has been triggered, the MSCLP
\* timer holds the value of the macro of the current mode: ACTIVE_MODE_TIMER
\* in ACTIVE_MODE and ALR_MODE_TIMER in ALR_MODE, from reset on.
C21_TimerMatchesModeAtScan ==
    (stage = "scan" /\ scanKind = "all") =>
        /\ appState \in {ACTIVE_MODE, ALR_MODE}
        /\ appState = ACTIVE_MODE => msclpTimer = ACTIVE_MODE_TIMER
        /\ appState = ALR_MODE => msclpTimer = ALR_MODE_TIMER

\* The first ALR_MODE scan after a return from WOT_MODE has been triggered.
C21_Witness ==
    /\ stage = "scan"
    /\ scanKind = "all"
    /\ appState = ALR_MODE
    /\ prevState = WOT_MODE
    /\ msclpTimer = ALR_MODE_TIMER

\* The step in which the handler of the current mode evaluates the cycle.
EvaluateStep == pc = "evaluate" /\ pc' = "updateLeds"

\* C22: with no activity ever, ACTIVE_MODE is left for ALR_MODE at the end
\* of exactly the 641st inactive cycle and ALR_MODE for WOT_MODE at the end
\* of exactly the 161st; both modes are reached, and WOT_MODE is visited
\* again and again.
C22_QuietScheduleReachesWot ==
    /\ [][(EvaluateStep /\ appState = ACTIVE_MODE)
            => (appState' = ALR_MODE <=> quietCycles + 1 = 641)]_vars
    /\ [][(EvaluateStep /\ appState = ALR_MODE)
            => (appState' = WOT_MODE <=> quietCycles + 1 = 161)]_vars
    /\ <>(appState = ALR_MODE)
    /\ <>(appState = WOT_MODE)
    /\ []<>(appState = WOT_MODE)

\* The 161st inactive ALR_MODE cycle has just ended in WOT_MODE.
C22_Witness ==
    /\ Evaluated
    /\ appState = WOT_MODE
    /\ prevState = ALR_MODE
    /\ prevCount = 160
    /\ ~sample
    /\ quietCycles = 0

\* C23: between two cycles appStateTimeoutCount is at most ACTIVE_MODE_TIMEOUT
\* (640) in ACTIVE_MODE, at most ALR_MODE_TIMEOUT (160) in ALR_MODE and 0 in
\* WOT_MODE, so the uint32_t counter stays far from its wrap.
C23_CounterBoundedByTimeout ==
    /\ pc = "switch" =>
          /\ appState = ACTIVE_MODE => appStateTimeoutCount <= 640
          /\ appState = ALR_MODE => appStateTimeoutCount <= 160
          /\ appState = WOT_MODE => appStateTimeoutCount = 0
    /\ appStateTimeoutCount \in 0..640

\* ACTIVE_MODE between two cycles with the counter at its bound.
C23_Witness ==
    /\ pc = "switch"
    /\ stage = "tuner"
    /\ appState = ACTIVE_MODE
    /\ appStateTimeoutCount = 640

\* C24: in ACTIVE_MODE and ALR_MODE the busy check and every step from it
\* to the WFI run with interrupts masked and the engine still busy, so deep
\* sleep is entered masked; the critical sections are balanced (the state
\* they save and restore is "enabled"), so interrupts are enabled whenever
\* main() is outside the wait loop.
C24_SleepMaskedAndSectionsBalanced ==
    /\ (appState \in {ACTIVE_MODE, ALR_MODE} /\ pc = "isBusy") => primask
    /\ (appState \in {ACTIVE_MODE, ALR_MODE}
            /\ (pc \in {"dsCheck", "dsBefore", "wfi"} \/ asleep))
          => (primask /\ busy)
    /\ ~interruptStatus
    /\ pc \in {"switch", "enterCS", "process", "evaluate", "updateLeds",
               "runTuner"} => ~primask

\* The core sleeps in the ACTIVE_MODE wait loop, interrupts masked, the scan
\* still running.
C24_Witness ==
    /\ appState = ACTIVE_MODE
    /\ asleep
    /\ primask
    /\ busy
    /\ pc = "wfi"

\* C25: the MOSI pin is analog high-Z only inside Cy_SysPm_CpuEnterDeepSleep,
\* between CY_SYSPM_BEFORE_TRANSITION and CY_SYSPM_AFTER_TRANSITION; when the
\* call has returned, and so whenever UpdateLeds is about to run, the pin is
\* in CY_GPIO_DM_STRONG_IN_OFF, in every mode, refused attempts included.
C25_PinStrongOutsideDeepSleep ==
    /\ mosiDrive = CY_GPIO_DM_ANALOG => pc \in {"wfi", "dsAfter"}
    /\ pc \notin {"wfi", "dsAfter"} => mosiDrive = CY_GPIO_DM_STRONG_IN_OFF
    /\ pc = "updateLeds" => mosiDrive = CY_GPIO_DM_STRONG_IN_OFF

\* UpdateLeds is about to run at the end of a WOT_MODE cycle, after a deep
\* sleep that put the pin in high-Z and restored it.
C25_Witness ==
    /\ pc = "updateLeds"
    /\ prevState = WOT_MODE
    /\ driveBefore = CY_GPIO_DM_STRONG_IN_OFF
    /\ mosiDrive = CY_GPIO_DM_STRONG_IN_OFF

====
